---- MODULE Spec2Model ----
(***************************************************************************)
(* Model of src/worker.js: a web worker that loads a speech model, decodes *)
(* audio and runs inference, posting progress, result and error messages.  *)
(*                                                                         *)
(* JavaScript runs one task at a time.  A message handler (onmessage) is a *)
(* task; the continuation of an async function after an external promise   *)
(* settles runs, together with the continuations of the async functions    *)
(* awaiting it, in one microtask drain.  No message handler can run inside  *)
(* such a drain, and the continuations read and write only the globals     *)
(* cancelled, transcriber and audioContext, so every action below is the    *)
(* code from one settled external call to the next external call.           *)
(***************************************************************************)
EXTENDS Integers, Sequences, FiniteSets, TLC

\* ---------------------------------------------------------------- bounds
MaxReq      == 2   \* 'transcribe' / 'transcribeUrl' messages handled
MaxCancel   == 2   \* 'cancel' messages handled
MaxPing     == 1   \* 'ping' messages handled
MaxProgress == 1   \* 'downloading' callbacks that post, per request
MaxOther    == 1   \* messages of an unknown type handled

Reqs == 1..MaxReq

\* ------------------------------------------------------------- values
NULL == "null"

\* result.text as returned by the external transcriber: empty or not
Texts == {"", "text"}

\* !v of JavaScript for a text or null
Falsy(v) == v \in {NULL, ""}

\* messages of errors thrown by external code
ExtFail == "fail"
CancelMsg == "Cancelled"

\* ------------------------------------------------------------ messages
Progress(step, status) ==
    [type |-> "progress", step |-> step, status |-> status, data |-> "-"]

Result(text) ==
    [type |-> "result", step |-> "-", status |-> "-", data |-> text]

Error(msg) ==
    [type |-> "error", step |-> "-", status |-> "-", data |-> msg]

VARIABLES
    transcriber,   \* global transcriber: NULL or "model"
    audioContext,  \* global audioContext: NULL or "ctx"
    cancelled,     \* global cancelled flag
    pc,            \* per request: the external call it is awaiting
    kind,          \* per request: "none", "file" ('transcribe'), "url"
    posts,         \* per request: the messages it has posted, in order
    replies,       \* worker-wide order of the non-progress messages posted
    cancelAt,      \* history: Len(posts[r]) at the first cancel handled
                   \*          while r was in flight, -1 if none
    resetAfter,    \* history: a request was started after that cancel while
                   \*          r was still in flight
    failed,        \* history: stage whose external call failed in r
    aborted,       \* history: progress_callback threw 'Cancelled' in r
    flagAtStart,   \* history: the flag when r's message was handled
    returned,      \* history: what transcribeAudio returned in r
    handled        \* history: control messages handled, by type

vars == <<transcriber, audioContext, cancelled, pc, kind, posts, replies,
          cancelAt, resetAfter, failed, aborted, flagAtStart, returned,
          handled>>

\* the history variables no continuation of a request writes
hist == <<flagAtStart, handled>>

InFlight(r) == pc[r] \notin {"idle", "done"}

Init ==
    /\ transcriber = NULL
    /\ audioContext = NULL
    /\ cancelled = FALSE
    /\ pc = [r \in Reqs |-> "idle"]
    /\ kind = [r \in Reqs |-> "none"]
    /\ posts = [r \in Reqs |-> << >>]
    /\ replies = << >>
    /\ cancelAt = [r \in Reqs |-> -1]
    /\ resetAfter = [r \in Reqs |-> FALSE]
    /\ failed = [r \in Reqs |-> "none"]
    /\ aborted = [r \in Reqs |-> FALSE]
    /\ flagAtStart = [r \in Reqs |-> FALSE]
    /\ returned = [r \in Reqs |-> NULL]
    /\ handled = [ping |-> 0, cancel |-> 0, other |-> 0]

\* ------------------------------------------------- what the code posts
InitModelStart == << Progress("model", "active") >>

InitModelDone == << Progress("model", "completed") >>

DecodeAudioStart == << Progress("decode", "active") >>

DecodeAudioDone == << Progress("decode", "completed") >>

TranscribeAudioStart == << Progress("transcribe", "active") >>

TranscribeAudioDone == << Progress("transcribe", "completed") >>

ProcessUrlStart == << Progress("decode", "active") >>

\* variant: the callback does not look at the flag
CallbackThrows_Never(c) == FALSE

\* progress_callback: throws when the flag is set ...
CallbackThrows(c) == c

\* variant: forwards the library's status as the event's status
CallbackPosts_ForwardStatus(status) ==
    IF status = "downloading" THEN << Progress("model", status) >> ELSE << >>

\* ... and otherwise posts only for the status 'downloading'
CallbackPosts(status) ==
    IF status = "downloading" THEN << Progress("model", "active") >> ELSE << >>

\* --------------------------------------------------- the catch clauses
\* each gives: does it throw, and the message of what it throws
LoadTransformersCatch(msg) ==
    [throws |-> TRUE, msg |-> "transformers.js: " \o msg]

\* variant: initModel's catch throws every error again
InitModelCatch_Rethrow(msg) ==
    [throws |-> TRUE, msg |-> msg]

InitModelCatch(msg) ==
    [throws |-> msg # CancelMsg, msg |-> msg]

\* variant: decodeAudio's catch swallows the error
DecodeAudioCatch_Swallow(msg) ==
    [throws |-> FALSE, msg |-> "decode: " \o msg]

DecodeAudioCatch(msg) ==
    [throws |-> TRUE, msg |-> "decode: " \o msg]

TranscribeAudioCatch(msg) ==
    [throws |-> msg # CancelMsg, msg |-> "transcribe: " \o msg]

\* variant: processFile's catch posts the error and throws it again
ProcessFileCatch_Rethrow(msg) ==
    [post |-> << Error(msg) >>, rethrow |-> TRUE]

\* variant: processFile's catch drops the error
ProcessFileCatch_Silent(msg) ==
    [post |-> << >>, rethrow |-> FALSE]

\* processFile's catch posts the error and swallows it
ProcessFileCatch(msg) ==
    [post |-> << Error(msg) >>, rethrow |-> FALSE]

ProcessUrlCatch(msg) == << Error(msg) >>

\* ------------------------------------------- the checks of the flag
\* variant: only the flag is checked after initModel
ReturnAfterModel_FlagOnly(c, model) == c

ReturnAfterModel(c, model) == c \/ model = NULL

\* variant: no check of the flag after decodeAudio
ReturnAfterDecode_Never(c) == FALSE

ReturnAfterDecode(c) == c

ReturnAfterTranscribe(c, text) == c \/ Falsy(text)

ReturnAfterDownload(c) == c

\* ------------------------------------------------------------ helpers
NonProgress(msgs) == SelectSeq(msgs, LAMBDA m : m.type # "progress")

Tagged(r, msgs) ==
    [i \in 1..Len(NonProgress(msgs)) |->
        [type |-> NonProgress(msgs)[i].type, req |-> r]]

Count(seq, t) == Len(SelectSeq(seq, LAMBDA m : m.type = t))

\* postMessage of msgs by request r, which then awaits (or ends at) newpc
Post(r, msgs, newpc) ==
    /\ posts' = [posts EXCEPT ![r] = @ \o msgs]
    /\ replies' = replies \o Tagged(r, msgs)
    /\ pc' = [pc EXCEPT ![r] = newpc]

\* an error thrown inside processFile's try: its catch posts it; in a
\* 'transcribeUrl' request processUrl's catch sees it only if it is rethrown
FileError(r, msg) ==
    ProcessFileCatch(msg).post \o
        (IF kind[r] = "url" /\ ProcessFileCatch(msg).rethrow
         THEN ProcessUrlCatch(msg) ELSE << >>)

\* variant: processFile does not reset the flag
ProcessFileBegin_NoReset(r) ==
    /\ UNCHANGED cancelled
    /\ Post(r, InitModelStart, "import")

\* processFile up to its first external call (the import in initModel)
ProcessFileBegin(r) ==
    /\ cancelled' = FALSE
    /\ Post(r, InitModelStart, "import")

\* a request message handled after a cancel: history of the reset
NoteReset ==
    resetAfter' = [s \in Reqs |->
                      resetAfter[s] \/ (InFlight(s) /\ cancelAt[s] >= 0)]

\* variant: a request message is taken up only when no request is in flight
NextId_WhenIdle(r) ==
    /\ pc[r] = "idle"
    /\ \A s \in Reqs : ~InFlight(s)
    /\ \A s \in 1..(r - 1) : pc[s] # "idle"

\* requests take the ids 1, 2, ... in the order their messages are handled
NextId(r) == pc[r] = "idle" /\ \A s \in 1..(r - 1) : pc[s] # "idle"

\* ---------------------------------------------------- message handlers
OnTranscribe(r) ==
    /\ NextId(r)
    /\ kind' = [kind EXCEPT ![r] = "file"]
    /\ ProcessFileBegin(r)
    /\ NoteReset
    /\ flagAtStart' = [flagAtStart EXCEPT ![r] = cancelled]
    /\ UNCHANGED <<transcriber, audioContext, cancelAt, failed,
                   aborted, returned, handled>>

OnTranscribeUrl(r) ==
    /\ NextId(r)
    /\ kind' = [kind EXCEPT ![r] = "url"]
    /\ cancelled' = FALSE
    /\ Post(r, ProcessUrlStart, "fetch")
    /\ NoteReset
    /\ flagAtStart' = [flagAtStart EXCEPT ![r] = cancelled]
    /\ UNCHANGED <<transcriber, audioContext, cancelAt, failed,
                   aborted, returned, handled>>

\* variant: the 'cancel' case falls through into the 'ping' case
CancelPosts_FallThrough ==
    << [type |-> "log", req |-> 0], [type |-> "pong", req |-> 0] >>

\* what the 'cancel' and the 'ping' case post
CancelPosts == << [type |-> "log", req |-> 0] >>

PingPosts == << [type |-> "pong", req |-> 0] >>

OnCancel ==
    /\ handled.cancel < MaxCancel
    /\ handled' = [handled EXCEPT !.cancel = @ + 1]
    /\ cancelled' = TRUE
    /\ replies' = replies \o CancelPosts
    /\ cancelAt' = [r \in Reqs |->
                       IF InFlight(r) THEN Len(posts[r]) ELSE cancelAt[r]]
    /\ resetAfter' = [r \in Reqs |->
                         IF InFlight(r) THEN FALSE ELSE resetAfter[r]]
    /\ UNCHANGED <<transcriber, audioContext, pc, kind, posts, failed,
                   aborted, flagAtStart, returned>>

OnPing ==
    /\ handled.ping < MaxPing
    /\ handled' = [handled EXCEPT !.ping = @ + 1]
    /\ replies' = replies \o PingPosts
    /\ UNCHANGED <<transcriber, audioContext, cancelled, pc, kind, posts,
                   cancelAt, resetAfter, failed, aborted, flagAtStart, returned>>

\* a message whose type matches no case of the switch
OnOther ==
    /\ handled.other < MaxOther
    /\ handled' = [handled EXCEPT !.other = @ + 1]
    /\ UNCHANGED <<transcriber, audioContext, cancelled, pc, kind, posts,
                   replies, cancelAt, resetAfter, failed, aborted,
                   flagAtStart, returned>>

\* -------------------------------------------- continuations of requests
\* a request ends: processFile / processUrl return without another call
Finish(r, msgs) == Post(r, msgs, "done")

\* fetch(url) settles: response ok, response not ok, or rejection
FetchSettles(r) ==
    /\ pc[r] = "fetch"
    /\ \E o \in {"ok", "notOk", "reject"} :
         IF o = "ok"
         THEN /\ Post(r, << >>, "body")
              /\ UNCHANGED failed
         ELSE /\ Finish(r, ProcessUrlCatch(IF o = "notOk" THEN "status"
                                                           ELSE ExtFail))
              /\ failed' = [failed EXCEPT ![r] = "download"]
    /\ UNCHANGED <<transcriber, audioContext, cancelled, kind,
                   cancelAt, resetAfter, aborted, returned, hist>>

\* response.arrayBuffer() settles; on success processUrl checks the flag
\* and calls processFile
BodySettles(r) ==
    /\ pc[r] = "body"
    /\ \E ok \in BOOLEAN :
         IF ok
         THEN /\ IF ReturnAfterDownload(cancelled)
                 THEN Finish(r, << >>) /\ UNCHANGED cancelled
                 ELSE ProcessFileBegin(r)
              /\ UNCHANGED failed
         ELSE /\ Finish(r, ProcessUrlCatch(ExtFail))
              /\ failed' = [failed EXCEPT ![r] = "download"]
              /\ UNCHANGED cancelled
    /\ UNCHANGED <<transcriber, audioContext, kind, cancelAt, resetAfter,
                   aborted, returned, hist>>

\* decodeAudio up to decodeAudioData(...)
DecodeBegin(r, msgs) ==
    /\ audioContext' = IF audioContext = NULL THEN "ctx" ELSE audioContext
    /\ Post(r, msgs \o DecodeAudioStart, "decode")

\* processFile after initModel has returned model, msgs posted so far
AfterInitModel(r, model, msgs) ==
    IF ReturnAfterModel(cancelled, model)
    THEN Finish(r, msgs) /\ UNCHANGED audioContext
    ELSE DecodeBegin(r, msgs)

\* the dynamic import in loadTransformers settles; on success initModel
\* calls pipeline(...)
ImportSettles(r) ==
    /\ pc[r] = "import"
    /\ \E ok \in BOOLEAN :
         IF ok
         THEN /\ Post(r, << >>, "pipeline")
              /\ UNCHANGED <<failed, audioContext>>
         ELSE /\ IF InitModelCatch(LoadTransformersCatch(ExtFail).msg).throws
                 THEN Finish(r, FileError(r, LoadTransformersCatch(ExtFail).msg))
                      /\ UNCHANGED audioContext
                 ELSE AfterInitModel(r, NULL, << >>)
              /\ failed' = [failed EXCEPT ![r] = "model"]
    /\ UNCHANGED <<transcriber, cancelled, kind, cancelAt, resetAfter,
                   aborted, returned, hist>>

\* the library calls progress_callback while pipeline(...) is pending; a
\* throw of the callback makes the pipeline promise reject with that error
PipelineProgress(r) ==
    /\ pc[r] = "pipeline"
    /\ \E status \in {"downloading", "other"} :
         IF CallbackThrows(cancelled)
         THEN /\ Post(r, << >>, "rejecting")
              /\ aborted' = [aborted EXCEPT ![r] = TRUE]
         ELSE /\ CallbackPosts(status) # << >>
              /\ Len(posts[r]) + Len(CallbackPosts(status))
                     <= Len(InitModelStart \o ProcessUrlStart) + MaxProgress
              /\ Post(r, CallbackPosts(status), "pipeline")
              /\ UNCHANGED aborted
    /\ UNCHANGED <<transcriber, audioContext, cancelled, kind,
                   cancelAt, resetAfter, failed, returned, hist>>

\* pipeline(...) settles: resolves to the model, rejects with an error of
\* the library, or rejects with the error the callback threw
PipelineSettles(r) ==
    /\ pc[r] \in {"pipeline", "rejecting"}
    /\ \E o \in {"ok", "fail"} :
         CASE pc[r] = "rejecting" ->
                /\ IF InitModelCatch(CancelMsg).throws
                   THEN Finish(r, FileError(r, CancelMsg))
                        /\ UNCHANGED audioContext
                   ELSE AfterInitModel(r, NULL, << >>)
                /\ UNCHANGED <<transcriber, failed>>
           [] pc[r] = "pipeline" /\ o = "ok" ->
                /\ transcriber' = "model"
                /\ AfterInitModel(r, transcriber', InitModelDone)
                /\ UNCHANGED failed
           [] pc[r] = "pipeline" /\ o = "fail" ->
                /\ IF InitModelCatch(ExtFail).throws
                   THEN Finish(r, FileError(r, ExtFail))
                        /\ UNCHANGED audioContext
                   ELSE AfterInitModel(r, NULL, << >>)
                /\ failed' = [failed EXCEPT ![r] = "model"]
                /\ UNCHANGED transcriber
    /\ UNCHANGED <<cancelled, kind, cancelAt, resetAfter,
                   aborted, returned, hist>>

\* transcribeAudio up to the call of the global transcriber; calling null
\* throws a TypeError inside its try
TranscribeBegin(r, msgs) ==
    IF transcriber = NULL
    THEN /\ Finish(r, msgs \o TranscribeAudioStart \o
                      (IF TranscribeAudioCatch(ExtFail).throws
                       THEN FileError(r, TranscribeAudioCatch(ExtFail).msg)
                       ELSE << >>))
         /\ failed' = [failed EXCEPT ![r] = "transcribe"]
    ELSE /\ Post(r, msgs \o TranscribeAudioStart, "infer")
         /\ UNCHANGED failed

\* decodeAudioData(...) settles
DecodeSettles(r) ==
    /\ pc[r] = "decode"
    /\ \E ok \in BOOLEAN :
         IF ok
         THEN IF ReturnAfterDecode(cancelled)
              THEN Finish(r, DecodeAudioDone) /\ UNCHANGED failed
              ELSE TranscribeBegin(r, DecodeAudioDone)
         ELSE IF DecodeAudioCatch(ExtFail).throws
              THEN /\ Finish(r, FileError(r, DecodeAudioCatch(ExtFail).msg))
                   /\ failed' = [failed EXCEPT ![r] = "decode"]
              ELSE IF ReturnAfterDecode(cancelled)
                   THEN /\ Finish(r, << >>)
                        /\ failed' = [failed EXCEPT ![r] = "decode"]
                   ELSE TranscribeBegin(r, << >>)
    /\ UNCHANGED <<transcriber, audioContext, cancelled, kind,
                   cancelAt, resetAfter, aborted, returned, hist>>

\* processFile after transcribeAudio has returned text
AfterTranscribe(r, t, msgs) ==
    IF ReturnAfterTranscribe(cancelled, t)
    THEN Finish(r, msgs)
    ELSE Finish(r, msgs \o << Result(t) >>)

\* transcriber(...) settles: resolves with some text, or rejects
InferSettles(r) ==
    /\ pc[r] = "infer"
    /\ \/ \E t \in Texts :
            /\ AfterTranscribe(r, t, TranscribeAudioDone)
            /\ returned' = [returned EXCEPT ![r] = t]
            /\ UNCHANGED failed
       \/ \E msg \in {ExtFail, CancelMsg} :
            /\ IF TranscribeAudioCatch(msg).throws
               THEN Finish(r, FileError(r, TranscribeAudioCatch(msg).msg))
               ELSE AfterTranscribe(r, NULL, << >>)
            /\ failed' = [failed EXCEPT ![r] =
                             IF msg = CancelMsg THEN @ ELSE "transcribe"]
            /\ UNCHANGED returned
    /\ UNCHANGED <<transcriber, audioContext, cancelled, kind,
                   cancelAt, resetAfter, aborted, hist>>

Next ==
    \/ \E r \in Reqs : OnTranscribe(r)
    \/ \E r \in Reqs : OnTranscribeUrl(r)
    \/ OnCancel
    \/ OnPing
    \/ OnOther
    \/ \E r \in Reqs : FetchSettles(r)
    \/ \E r \in Reqs : BodySettles(r)
    \/ \E r \in Reqs : ImportSettles(r)
    \/ \E r \in Reqs : PipelineProgress(r)
    \/ \E r \in Reqs : PipelineSettles(r)
    \/ \E r \in Reqs : DecodeSettles(r)
    \/ \E r \in Reqs : InferSettles(r)

Spec == Init /\ [][Next]_vars

\* ====================================================== properties
Steps == {"model", "decode", "transcribe"}

Statuses == {"active", "completed"}

Rank(step) == CASE step = "model" -> 1
                [] step = "decode" -> 2
                [] step = "transcribe" -> 3
                [] OTHER -> 0

Idx(r) == 1..Len(posts[r])

\* request r has posted m before its i-th message
Before(r, i, m) == \E j \in 1..(i - 1) : posts[r][j] = m

Terminals(r) == Count(posts[r], "result") + Count(posts[r], "error")

\* the messages r posted after the last cancel handled while it was in flight
AfterCancel(r) == SubSeq(posts[r], cancelAt[r] + 1, Len(posts[r]))

ActiveUpToCancel(r) ==
    {i \in 1..cancelAt[r] : posts[r][i].type = "progress"
                            /\ posts[r][i].status = "active"}

\* the step of the stage that was running at that cancel
StepAtCancel(r) ==
    LET A == ActiveUpToCancel(r)
    IN  posts[r][CHOOSE i \in A : \A j \in A : j <= i].step

\* its place in the order of stages; 0 is the download of a 'transcribeUrl'
\* request, which runs before the model load
RankAtCancel(r) ==
    IF kind[r] = "url"
         /\ \A i \in 1..cancelAt[r] : posts[r][i].step # "model"
    THEN 0
    ELSE Rank(StepAtCancel(r))

\* r started no stage later than the one running at the cancel, and posted
\* no result, after the cancel
StoppedByCancel(r) ==
    \A i \in Idx(r) :
        i > cancelAt[r] =>
            /\ posts[r][i].type # "result"
            /\ (posts[r][i].type = "progress" /\ posts[r][i].status = "active")
                   => Rank(posts[r][i].step) <= RankAtCancel(r)

\* C1: once a cancel has been handled while a request is in flight, that
\* request starts no later stage and posts no result, whatever messages the
\* worker handles afterwards (new requests included).
C1_CancelIsFinal ==
    \A r \in Reqs : cancelAt[r] >= 0 => StoppedByCancel(r)

\* C2: a request that ends without ever having been in flight at a cancel
\* has posted a 'result' or an 'error', for every outcome of its external
\* calls (any returned text included).
C2_EndsWithTerminal ==
    \A r \in Reqs :
        (pc[r] = "done" /\ cancelAt[r] = -1) => Terminals(r) >= 1

\* C3: in a 'transcribe' request no decode event is posted before
\* 'model' 'completed' and no transcribe event before 'decode' 'completed'.
C3_FileStageOrder ==
    \A r \in Reqs : kind[r] = "file" =>
        \A i \in Idx(r) :
            /\ posts[r][i].step = "decode"
                   => Before(r, i, Progress("model", "completed"))
            /\ posts[r][i].step = "transcribe"
                   => Before(r, i, Progress("decode", "completed"))

C3_Witness ==
    \E r \in Reqs :
        /\ kind[r] = "file"
        /\ pc[r] = "done"
        /\ Count(posts[r], "result") = 1

\* C4 as stated: in a 'transcribeUrl' request no event with step 'decode'
\* is posted before 'model' 'completed'.
C4_UrlNoDecodeBeforeModel ==
    \A r \in Reqs : kind[r] = "url" =>
        \A i \in Idx(r) :
            posts[r][i].step = "decode"
                => Before(r, i, Progress("model", "completed"))

\* C4 amended: a 'transcribeUrl' request first posts 'decode' 'active' (the
\* download); after that first event it posts no decode event before
\* 'model' 'completed' and no transcribe event before 'decode' 'completed'.
C4_UrlStageOrder ==
    \A r \in Reqs : kind[r] = "url" =>
        \A i \in Idx(r) :
            /\ i = 1 => posts[r][i] = Progress("decode", "active")
            /\ (i > 1 /\ posts[r][i].step = "decode")
                   => Before(r, i, Progress("model", "completed"))
            /\ posts[r][i].step = "transcribe"
                   => Before(r, i, Progress("decode", "completed"))

C4_Witness ==
    \E r \in Reqs :
        /\ kind[r] = "url"
        /\ pc[r] = "done"
        /\ Count(posts[r], "result") = 1

\* C5: when model loading, decoding or inference fails for a reason other
\* than cancellation, the request posts exactly one error, which is its
\* last message (no later stage starts), and no result.
C5_FailureIsReported ==
    \A r \in Reqs : failed[r] \in Steps =>
        /\ pc[r] = "done"
        /\ Count(posts[r], "error") = 1
        /\ Count(posts[r], "result") = 0
        /\ posts[r][Len(posts[r])].type = "error"

C5_Witness ==
    \E r \in Reqs :
        /\ failed[r] = "decode"
        /\ cancelAt[r] >= 0
        /\ Count(posts[r], "error") = 1

\* C6: a request posts at most one terminal message ('result' or 'error'),
\* also when processFile runs inside processUrl.
C6_OneTerminal ==
    \A r \in Reqs : Terminals(r) <= 1

C6_Witness ==
    \E r \in Reqs :
        /\ kind[r] = "url"
        /\ failed[r] \in Steps
        /\ pc[r] = "done"
        /\ Terminals(r) = 1

\* C7: every progress message has a step in {model, decode, transcribe} and
\* a status in {active, completed}, and every 'completed' event follows an
\* 'active' event of the same stage in the same request.
C7_ProgressWellFormed ==
    \A r \in Reqs : \A i \in Idx(r) :
        posts[r][i].type = "progress" =>
            /\ posts[r][i].step \in Steps
            /\ posts[r][i].status \in Statuses
            /\ posts[r][i].status = "completed"
                   => Before(r, i, Progress(posts[r][i].step, "active"))

C7_Witness ==
    \E r \in Reqs :
        /\ \A st \in Steps : \E i \in Idx(r) :
               posts[r][i] = Progress(st, "completed")
        /\ \E i \in Idx(r) : i > 1 /\ posts[r][i] = Progress("model", "active")
                                   /\ posts[r][i - 1] = posts[r][i]

\* C8: a result is posted only after 'completed' events of model, decode
\* and transcribe, in that order.
C8_ResultAfterAllStages ==
    \A r \in Reqs : \A i \in Idx(r) :
        posts[r][i].type = "result" =>
            \E a, b, c \in 1..(i - 1) :
                /\ a < b /\ b < c
                /\ posts[r][a] = Progress("model", "completed")
                /\ posts[r][b] = Progress("decode", "completed")
                /\ posts[r][c] = Progress("transcribe", "completed")

C8_Witness ==
    \E r \in Reqs :
        /\ Count(posts[r], "result") = 1
        /\ \E s \in Reqs : s # r /\ pc[s] = "done" /\ Terminals(s) = 0

\* C9: while no request message is handled after a cancel, no request that
\* was in flight at the cancel posts a result or starts a later stage.
C9_CancelStopsInFlight ==
    \A r \in Reqs :
        (cancelAt[r] >= 0 /\ ~resetAfter[r]) => StoppedByCancel(r)

C9_Witness ==
    \A r \in Reqs :
        /\ cancelAt[r] >= 0
        /\ ~resetAfter[r]
        /\ pc[r] = "done"
        /\ Len(AfterCancel(r)) = 1

\* C10: after a cancel (no request message handled after it) an in-flight
\* request posts at most one more progress message, the 'completed' event
\* of the stage that was running at the cancel, and no 'active' event.
C10_AtMostStageCompletion ==
    \A r \in Reqs :
        (cancelAt[r] >= 0 /\ ~resetAfter[r]) =>
            LET progs == SelectSeq(AfterCancel(r),
                                   LAMBDA m : m.type = "progress")
            IN  /\ Len(progs) <= 1
                /\ Len(progs) = 1 =>
                       /\ RankAtCancel(r) > 0
                       /\ progs[1] = Progress(StepAtCancel(r), "completed")

C10_Witness ==
    \E r \in Reqs :
        /\ cancelAt[r] >= 0
        /\ ~resetAfter[r]
        /\ pc[r] = "done"
        /\ AfterCancel(r) = << Progress("transcribe", "completed") >>

Posted(r, m) == \E i \in Idx(r) : posts[r][i] = m

\* C11: cancellation is never reported as an error: a request whose model
\* load was aborted by the callback's 'Cancelled' posts no error, no result
\* and no 'model' 'completed'; and a request that was in flight at a cancel
\* and in which no external call failed posts no error.
C11_CancelIsNoError ==
    \A r \in Reqs :
        /\ aborted[r] =>
               /\ Terminals(r) = 0
               /\ ~Posted(r, Progress("model", "completed"))
               /\ failed[r] = "none"
        /\ (cancelAt[r] >= 0 /\ failed[r] = "none") =>
               Count(posts[r], "error") = 0

C11_Witness ==
    \E r \in Reqs :
        /\ aborted[r]
        /\ resetAfter[r]
        /\ pc[r] = "done"

\* the download was awaiting at the last cancel handled while r was in flight
CancelledInDownload(r) ==
    /\ kind[r] = "url"
    /\ cancelAt[r] >= 0
    /\ RankAtCancel(r) = 0

\* C12: in a 'transcribeUrl' request a failed download gives exactly one
\* error and no model event, no transcribe event and no result; a request
\* cancelled while the download is awaiting posts no model event.
C12_DownloadEndsRequest ==
    \A r \in Reqs :
        /\ failed[r] = "download" =>
               /\ Count(posts[r], "error") = 1
               /\ Count(posts[r], "result") = 0
               /\ \A i \in Idx(r) :
                      posts[r][i].step \notin {"model", "transcribe"}
        /\ CancelledInDownload(r) =>
               \A i \in Idx(r) : posts[r][i].step # "model"

\* C13: a cancel handled before a request begins does not affect it: while
\* the request is in flight and no cancel is handled the flag is false, and
\* when no external call fails the request runs all three stages and, on a
\* non-empty text, posts its result.
C13_EarlierCancelForgotten ==
    \A r \in Reqs :
        (flagAtStart[r] /\ cancelAt[r] = -1) =>
            /\ InFlight(r) => ~cancelled
            /\ (pc[r] = "done" /\ failed[r] = "none") =>
                   /\ \A st \in Steps : Posted(r, Progress(st, "active"))
                   /\ ~Falsy(returned[r]) =>
                          /\ \A st \in Steps :
                                 Posted(r, Progress(st, "completed"))
                          /\ posts[r][Len(posts[r])] = Result(returned[r])

C13_Witness ==
    /\ flagAtStart[1]
    /\ pc[1] = "done"
    /\ Count(posts[1], "result") = 1
    /\ \A r \in Reqs \ {1} : pc[r] = "idle"

\* the continuation of request r after whatever it is awaiting
Settles(r) ==
    \/ FetchSettles(r)
    \/ BodySettles(r)
    \/ ImportSettles(r)
    \/ PipelineSettles(r)
    \/ DecodeSettles(r)
    \/ InferSettles(r)

\* C14: requests are not serialised: a request message can be taken up
\* whatever the earlier requests are awaiting, every request in flight can
\* go on, and taking up requests cancels nothing.
C14_NotSerialised ==
    /\ (\E r \in Reqs : pc[r] = "idle") =>
           /\ ENABLED (\E r \in Reqs : OnTranscribe(r))
           /\ ENABLED (\E r \in Reqs : OnTranscribeUrl(r))
    /\ \A r \in Reqs : InFlight(r) => ENABLED Settles(r)
    /\ handled.cancel = 0 =>
           /\ ~cancelled
           /\ \A r \in Reqs : cancelAt[r] = -1

\* both requests posted a result, the later request first
C14_Witness ==
    /\ handled.cancel = 0
    /\ Len(replies) >= 2
    /\ \E i, j \in 1..Len(replies) :
           /\ i < j
           /\ replies[i] = [type |-> "result", req |-> 2]
           /\ replies[j] = [type |-> "result", req |-> 1]

\* C15: a 'ping' posts exactly one 'pong' and changes nothing else; a
\* 'cancel' posts exactly one 'log' and changes only the flag, to true; a
\* message of an unknown type posts nothing and changes nothing.
C15_ControlMessages ==
    [][ /\ handled'.ping # handled.ping =>
              /\ replies' = Append(replies, [type |-> "pong", req |-> 0])
              /\ UNCHANGED <<cancelled, transcriber, audioContext,
                             pc, kind, posts>>
        /\ handled'.cancel # handled.cancel =>
              /\ replies' = Append(replies, [type |-> "log", req |-> 0])
              /\ cancelled'
              /\ UNCHANGED <<transcriber, audioContext, pc, kind, posts>>
        /\ handled'.other # handled.other =>
              UNCHANGED <<cancelled, transcriber, audioContext,
                          pc, kind, posts, replies>>
      ]_vars

\* a ping answered between the results of request 2 and of request 1, which
\* was in flight at a cancel, and an unknown message handled
C15_Witness ==
    /\ handled.other = 1
    /\ cancelAt[1] >= 0
    /\ \E i, j, k \in 1..Len(replies) :
           /\ i < j /\ j < k
           /\ replies[i] = [type |-> "result", req |-> 2]
           /\ replies[j].type = "pong"
           /\ replies[k] = [type |-> "result", req |-> 1]

\* C16: whenever a request has started the transcribe stage the global
\* transcriber is set, and once a model load has completed it stays set.
C16_TranscriberLoaded ==
    \A r \in Reqs :
        (\/ Posted(r, Progress("transcribe", "active"))
         \/ Posted(r, Progress("model", "completed"))
         \/ pc[r] = "infer")
            => transcriber # NULL

C16_Witness ==
    \E r, s \in Reqs :
        /\ aborted[s]
        /\ pc[s] = "done"
        /\ pc[r] = "infer"

====
